---- MODULE Spec2Model ----
(***************************************************************************)
(* Model of steam-gaming-dashboard/dashboard.py: a Streamlit script that   *)
(* loads three parquet tables through a process-wide cache and renders     *)
(* metrics and a pie chart.  Every user interaction re-executes the whole  *)
(* script; one action of the model is one such execution.                  *)
(***************************************************************************)
EXTENDS Integers, Sequences, FiniteSets, TLC

VARIABLES
    readable,      \* which parquet files pd.read_parquet can read right now
    cache,         \* st.cache_data's entry for load_data(): None or <<entry>>
    auto_refresh,  \* session state of the "Auto Refresh (30s)" checkbox
    now,           \* wall clock as read by datetime.now()
    display,       \* the elements the last script run put on the page
    locals,        \* games_df, reviews_df, logs_df of main() at its end
    ret,           \* what the last call of load_data() returned
    raised,        \* whether the last script run ended with an exception
    firstLoad,     \* what the first load_data() call of the cache window returned
    reads,         \* executions of load_data's body in the cache window
    lastEvent      \* what caused the last step

vars == <<readable, cache, auto_refresh, now, display, locals, ret, raised,
          firstLoad, reads, lastEvent>>

----------------------------------------------------------------------------
(* Bounds of the model *)

MaxRows == 4
MaxGames == 1
ClockPeriod == 2

----------------------------------------------------------------------------
(* Values *)

Files == <<"games", "reviews", "logs">>

FileSet == {Files[i] : i \in DOMAIN Files}

Path(f) == "steam-gaming-dashboard/" \o f \o ".parquet"

\* Python's None and a present object, as sequences of length 0 and 1
None == <<>>

Some(x) == <<x>>

NoTables == <<None, None, None>>

\* A DataFrame: its column names and its rows (functions from column to value)
DataFrame(cols, rows) == [columns |-> cols, rows |-> rows]

len(df) == Len(df.rows)

Min(a, b) == IF a < b THEN a ELSE b

\* Rows the input files are drawn from: the playtimes and vote counts of the
\* documented examples, then the bin edges
SamplePlaytime == <<5, 15, 60, 150, 0, 10, 50, 100>>

SampleHelpful == <<20, 20, 20, 20, 0, 1, 1, 3>>

SampleTotal == <<25, 25, 25, 25, 0, 16, 3, 7>>

SamplePlayers == <<1, 1, 2, 3>>

ReviewValue(c, i) ==
    IF c = "playtime_hours" THEN SamplePlaytime[i]
    ELSE IF c = "helpful_votes" THEN SampleHelpful[i]
    ELSE IF c = "total_votes" THEN SampleTotal[i]
    ELSE i

ReviewColumnSets ==
    { {"review_id"},
      {"review_id", "playtime_hours"},
      {"review_id", "playtime_hours", "helpful_votes"},
      {"review_id", "playtime_hours", "helpful_votes", "total_votes"} }

\* Reviews files: no rows, the documented example rows, or the bin-edge rows
ReviewsTables ==
    { DataFrame(cols, [i \in 1..n |-> [c \in cols |-> ReviewValue(c, start + i - 1)]]) :
        <<cols, start, n>> \in
            { t \in ReviewColumnSets \X {1, 5} \X (0..MaxRows) :
                t[3] \in {0, Min(MaxRows, Len(SamplePlaytime) - t[2] + 1)} } }

GamesTables ==
    { DataFrame({"app_id"}, [i \in 1..n |-> [c \in {"app_id"} |-> i]]) : n \in 0..MaxGames }

LogsTables ==
    { DataFrame({"event", "player_id"},
                [i \in 1..Min(MaxRows, Len(SamplePlayers)) |->
                    [c \in {"event", "player_id"} |->
                        IF c = "player_id" THEN SamplePlayers[i] ELSE i]]),
      DataFrame({"event"}, [i \in 1..1 |-> [c \in {"event"} |-> i]]) }

----------------------------------------------------------------------------
(* pandas and string formatting, as the script uses them *)

\* Series.sum() of an integer column
RECURSIVE SumTo(_, _, _)
SumTo(df, c, n) == IF n = 0 THEN 0 ELSE SumTo(df, c, n - 1) + df.rows[n][c]

column_sum(df, c) == SumTo(df, c, len(df))

\* Series.nunique()
nunique(df, c) == Cardinality({df.rows[i][c] : i \in 1..len(df)})

\* f"{n:,}" for n >= 0: decimal digits in groups of three
Pad3(n) == IF n < 10 THEN "00" \o ToString(n)
           ELSE IF n < 100 THEN "0" \o ToString(n)
           ELSE ToString(n)

RECURSIVE FormatThousands(_)
FormatThousands(n) ==
    IF n < 1000 THEN ToString(n)
    ELSE FormatThousands(n \div 1000) \o "," \o Pad3(n % 1000)

\* f"{num/den:.1f}" for num >= 0, den >= 0: the quotient rounded to one decimal,
\* ties to even; numpy gives nan for 0/0 and inf for x/0 instead of raising
FormatFixed1(num, den) ==
    IF den = 0 THEN (IF num = 0 THEN "nan" ELSE "inf")
    ELSE LET q == (10 * num) \div den
             r == (10 * num) % den
             tenths == IF 2 * r > den \/ (2 * r = den /\ q % 2 = 1) THEN q + 1 ELSE q
         IN  FormatThousands(tenths \div 10) \o "." \o ToString(tenths % 10)

\* pd.cut(x, bins=[0, 10, 50, 100, inf], labels=[...]) with pandas' defaults
\* right=True, include_lowest=False: the intervals are (0,10], (10,50],
\* (50,100], (100,inf), and a value in none of them becomes NaN
BinEdges == <<0, 10, 50, 100>>

BinLabels == <<"0-10h", "10-50h", "50-100h", "100h+">>

NaN == "NaN"

pd_cut(x) ==
    IF \E k \in DOMAIN BinEdges :
          /\ x > BinEdges[k]
          /\ k < Len(BinEdges) => x <= BinEdges[k + 1]
    THEN BinLabels[CHOOSE k \in DOMAIN BinEdges :
                      /\ x > BinEdges[k]
                      /\ k < Len(BinEdges) => x <= BinEdges[k + 1]]
    ELSE NaN

\* reviews_df['playtime_bin'] = pd.cut(reviews_df['playtime_hours'], ...)
add_playtime_bin(df) ==
    LET cols == df.columns \cup {"playtime_bin"}
    IN  DataFrame(cols,
                  [i \in 1..len(df) |->
                      [c \in cols |-> IF c = "playtime_bin"
                                      THEN pd_cut(df.rows[i]["playtime_hours"])
                                      ELSE df.rows[i][c]]])

\* Series.value_counts() of the categorical column: one count per label,
\* NaN rows dropped
value_counts(df) ==
    [k \in DOMAIN BinLabels |->
        Cardinality({i \in 1..len(df) : df.rows[i]["playtime_bin"] = BinLabels[k]})]

----------------------------------------------------------------------------
(* The script *)

\* One st.* call: the widget kind, its label, and the text it shows
Elem(kind, label, value) == [kind |-> kind, label |-> label, value |-> value]

\* st.plotly_chart(px.pie(values=..., names=..., title=...))
PieChart(title, counts) ==
    [kind |-> "plotly_chart", label |-> title, value |-> "pie", data |-> counts]

has_column(df, c) == c \in df.columns

\* except Exception as e: st.error(...); return None, None, None
load_failed(f) ==
    [value |-> NoTables,
     messages |-> <<Elem("error", "Error loading data", Path(f))>>,
     raised |-> FALSE]

\* Variant: only the first read is guarded, so a later failure leaves the
\* tables read so far in place
load_data_body_partial(rd, disk) ==
    IF ~rd["games"] THEN load_failed("games")
    ELSE [value |-> <<Some(disk.games),
                      IF rd["reviews"] THEN Some(disk.reviews) ELSE None,
                      IF rd["reviews"] /\ rd["logs"] THEN Some(disk.logs) ELSE None>>,
          messages |-> <<>>,
          raised |-> FALSE]

\* The body of load_data: three reads in order inside one try; the first read
\* that fails abandons the rest
load_data_body(rd, disk) ==
    IF ~rd["games"] THEN load_failed("games")
    ELSE IF ~rd["reviews"] THEN load_failed("reviews")
    ELSE IF ~rd["logs"] THEN load_failed("logs")
    ELSE [value |-> <<Some(disk.games), Some(disk.reviews), Some(disk.logs)>>,
          messages |-> <<>>,
          raised |-> FALSE]

\* Variant: nothing is ever served from the cache
cache_hit_never(c) == FALSE

\* Variant: a failed load is not kept
cache_hit_loaded_only(c) == c # None /\ c[1].value # NoTables

\* @st.cache_data keeps one entry for the argument-less function, whatever it
\* returned, with no ttl and no max_entries
cache_hit(c) == c # None

\* Variant: a hit shows nothing of what the body showed
replayed_nothing(entry) == <<>>

\* On a hit st.cache_data replays the st.* calls recorded with the entry
replayed_messages(entry) == entry.messages

\* A call of the decorated load_data: the cached entry on a hit, else the body;
\* a return value is stored, an exception is not
load_data(c, rd, disk) ==
    IF cache_hit(c)
    THEN [value |-> c[1].value, messages |-> replayed_messages(c[1]),
          raised |-> FALSE, read |-> FALSE, cache |-> c]
    ELSE LET res == load_data_body(rd, disk)
         IN  [value |-> res.value, messages |-> res.messages,
              raised |-> res.raised, read |-> TRUE,
              cache |-> IF res.raised THEN c
                        ELSE Some([value |-> res.value, messages |-> res.messages])]

\* Variant: the caller holds the stored objects themselves
cache_aliases_frames(c, dfs) ==
    IF c = None THEN c ELSE Some([c[1] EXCEPT !.value = dfs])

\* st.cache_data hands the caller a fresh copy of the stored value, so what
\* main() does to its DataFrames never reaches the entry
cache_after_main(c, dfs) == c

\* st.cache_data.clear()
cache_clear(c) == None

\* Lines 35-36 and 53-55: what every run shows before it loads
preamble ==
    << Elem("write", "Current directory:", "cwd"),
       Elem("write", "Files in directory:", "listdir"),
       Elem("markdown", "main-header", "Gaming Analytics Dashboard"),
       Elem("markdown", "subtitle", "Real-time insights dari Steam gaming data lakehouse") >>

\* The sidebar up to and including the button
sidebar_controls(ar) ==
    << Elem("markdown", "sidebar", "System Status"),
       Elem("success", "sidebar", "Analytics API: Online"),
       Elem("checkbox", "Auto Refresh (30s)", IF ar THEN "True" ELSE "False"),
       Elem("button", "Refresh Now", "") >>

last_updated(t) == << Elem("markdown", "Last Updated:", ToString(t)) >>

\* Overview Metrics: the four columns
overview_metrics(games_df, reviews_df, logs_df) ==
    << Elem("markdown", "section", "Overview Metrics"),
       Elem("metric", "Total Games",
            FormatThousands(IF games_df # None THEN len(games_df[1]) ELSE 0)),
       Elem("metric", "Total Reviews",
            FormatThousands(IF reviews_df # None THEN len(reviews_df[1]) ELSE 0)),
       Elem("metric", "Log Entries",
            FormatThousands(IF logs_df # None THEN len(logs_df[1]) ELSE 0)),
       IF reviews_df # None /\ has_column(reviews_df[1], "playtime_hours")
       THEN Elem("metric", "Avg Playtime",
                 FormatFixed1(column_sum(reviews_df[1], "playtime_hours"),
                              len(reviews_df[1])) \o "h")
       ELSE Elem("metric", "Avg Playtime", "N/A") >>

\* reviews_df as the playtime chart leaves it
reviews_after_chart(reviews_df) ==
    IF reviews_df # None /\ has_column(reviews_df[1], "playtime_hours")
    THEN Some(add_playtime_bin(reviews_df[1]))
    ELSE reviews_df

playtime_chart(reviews_df) ==
    << Elem("markdown", "section", "Player Analytics"),
       Elem("markdown", "col1", "Player Playtime Distribution"),
       IF reviews_df # None /\ has_column(reviews_df[1], "playtime_hours")
       THEN PieChart("Playtime Distribution",
                     value_counts(reviews_after_chart(reviews_df)[1]))
       ELSE Elem("info", "col1", "Playtime data not available") >>

FallbackSentiment == "62.4%"

player_metrics(reviews_df, logs_df) ==
    << IF logs_df # None /\ has_column(logs_df[1], "player_id")
       THEN Elem("metric", "Active Players", FormatThousands(nunique(logs_df[1], "player_id")))
       ELSE Elem("metric", "Active Players", "N/A"),
       IF reviews_df # None
       THEN IF has_column(reviews_df[1], "helpful_votes")
               /\ has_column(reviews_df[1], "total_votes")
            THEN Elem("metric", "Sentiment Score",
                      FormatFixed1(100 * column_sum(reviews_df[1], "helpful_votes"),
                                   column_sum(reviews_df[1], "total_votes")) \o "%")
            ELSE Elem("metric", "Sentiment Score", FallbackSentiment)
       ELSE Elem("metric", "Sentiment Score", "N/A") >>

files_not_found ==
    << Elem("error", "main",
            "Data files not found! Please ensure parquet files are in the project directory."),
       Elem("info", "main", "Required files: games.parquet, reviews.parquet, logs.parquet") >>

\* One execution of the script: c is the cache it starts with, button whether
\* this run was caused by a click on "Refresh Now", rd and disk the storage,
\* ar the checkbox state, t the clock
main(c, button, rd, disk, ar, t) ==
    LET call == load_data(c, rd, disk)
        games_df == call.value[1]
        reviews_df == call.value[2]
        logs_df == call.value[3]
        loaded == preamble \o call.messages
    IN  IF call.raised
        THEN [cache |-> call.cache, display |-> preamble, ret |-> call.value,
              locals |-> call.value, read |-> call.read, rerun |-> FALSE,
              raised |-> TRUE]
        ELSE IF games_df # None
        THEN IF button
             THEN [cache |-> cache_clear(call.cache),
                   display |-> loaded \o sidebar_controls(ar),
                   ret |-> call.value, locals |-> call.value,
                   read |-> call.read, rerun |-> TRUE, raised |-> FALSE]
             ELSE LET dfs == <<games_df, reviews_after_chart(reviews_df), logs_df>>
                  IN  [cache |-> cache_after_main(call.cache, dfs),
                       display |-> loaded \o sidebar_controls(ar) \o last_updated(t)
                                   \o overview_metrics(games_df, reviews_df, logs_df)
                                   \o playtime_chart(reviews_df)
                                   \o player_metrics(reviews_after_chart(reviews_df), logs_df),
                       ret |-> call.value, locals |-> dfs,
                       read |-> call.read, rerun |-> FALSE, raised |-> FALSE]
        ELSE [cache |-> call.cache, display |-> loaded \o files_not_found,
              ret |-> call.value, locals |-> call.value,
              read |-> call.read, rerun |-> FALSE, raised |-> FALSE]

----------------------------------------------------------------------------
(* State machine *)

Init ==
    /\ readable \in [FileSet -> BOOLEAN]
    /\ cache = None
    /\ auto_refresh = FALSE
    /\ now = 0
    /\ display = <<>>
    /\ locals = NoTables
    /\ ret = NoTables
    /\ raised = FALSE
    /\ firstLoad = NoTables
    /\ reads = 0
    /\ lastEvent = "start"

\* Whether the page currently offers a widget
Offers(kind, label) ==
    \E i \in DOMAIN display : display[i].kind = kind /\ display[i].label = label

\* What the files hold at the moment they are read; a file that cannot be
\* read has no content, and a run served from the cache reads nothing
Contents(f, tables, reading) ==
    IF reading /\ readable[f] THEN tables ELSE {CHOOSE t \in tables : TRUE}

Disks(reading) ==
    { [games |-> g, reviews |-> r, logs |-> l] :
        <<g, r, l>> \in Contents("games", GamesTables, reading)
                        \X Contents("reviews", ReviewsTables, reading)
                        \X Contents("logs", LogsTables, reading) }

\* The script runner: one execution of the script, and a second one when the
\* first ended in st.rerun(); what the page, the cache and the tallies are after
script_run(c, button, rd, disk, ar, t, first0, n) ==
    LET first == main(c, button, rd, disk, ar, t)
    IN  IF first.rerun
        THEN LET second == main(first.cache, FALSE, rd, disk, ar, t)
             IN  [run |-> second, firstLoad |-> second.ret,
                  reads |-> IF second.read THEN 1 ELSE 0]
        ELSE [run |-> first,
              firstLoad |-> IF c = None THEN first.ret ELSE first0,
              reads |-> IF first.read THEN Min(n + 1, 2) ELSE n]

RunScript(event, button, ar) ==
    \E disk \in Disks(button \/ ~cache_hit(cache)) :
        \E res \in {script_run(cache, button, readable, disk, ar, now, firstLoad, reads)} :
            /\ cache' = res.run.cache
            /\ display' = res.run.display
            /\ locals' = res.run.locals
            /\ ret' = res.run.ret
            /\ raised' = res.run.raised
            /\ firstLoad' = res.firstLoad
            /\ reads' = res.reads
            /\ auto_refresh' = ar
            /\ lastEvent' = event
            /\ UNCHANGED <<readable, now>>

\* A browser opens or reloads the page: a new session, widgets at their defaults
PageLoad == RunScript("load", FALSE, FALSE)

\* The user toggles the "Auto Refresh (30s)" checkbox
ToggleAutoRefresh ==
    /\ Offers("checkbox", "Auto Refresh (30s)")
    /\ RunScript("toggle", FALSE, ~auto_refresh)

\* The user clicks "Refresh Now"
ClickRefreshNow ==
    /\ Offers("button", "Refresh Now")
    /\ RunScript("refresh", TRUE, auto_refresh)

\* Time passes
Tick ==
    /\ now' = (now + 1) % ClockPeriod
    /\ lastEvent' = "tick"
    /\ UNCHANGED <<readable, cache, auto_refresh, display, locals, ret, raised,
                   firstLoad, reads>>

\* A parquet file appears, disappears, or is replaced by a malformed one
FileChange ==
    \E f \in FileSet :
        /\ readable' = [readable EXCEPT ![f] = ~@]
        /\ lastEvent' = "storage"
        /\ UNCHANGED <<cache, auto_refresh, now, display, locals, ret, raised,
                       firstLoad, reads>>

Next == PageLoad \/ ToggleAutoRefresh \/ ClickRefreshNow \/ Tick \/ FileChange

Spec == Init /\ [][Next]_vars

\* The clock never stops; nothing else is scheduled by the program
FairSpec == Spec /\ WF_vars(Tick)

----------------------------------------------------------------------------
(* Properties *)

AllPresent(v) == v[1] # None /\ v[2] # None /\ v[3] # None

AllAbsent(v) == v = NoTables

AllReadable == \A f \in FileSet : readable[f]

RunEvents == {"load", "toggle", "refresh"}

Rendered == lastEvent # "start" /\ reads > 0

CacheFailed == cache # None /\ cache[1].value = NoTables

CacheLoaded == cache # None /\ AllPresent(cache[1].value)

Count(kind) == Cardinality({i \in DOMAIN display : display[i].kind = kind})

Shows(kind, label, value) ==
    \E i \in DOMAIN display :
        display[i].kind = kind /\ display[i].label = label /\ display[i].value = value

RequiredFiles == "Required files: games.parquet, reviews.parquet, logs.parquet"

\* C1: load_data never raises and returns either three tables, exactly when
\* all three files were readable as its body ran, or three absent values; no
\* state has some tables present and others absent.
C1_LoadAllOrNothing ==
    /\ [](~raised /\ (AllPresent(ret) \/ AllAbsent(ret)))
    /\ [][(lastEvent' \in RunEvents /\ (cache = None \/ lastEvent' = "refresh"))
            => (AllPresent(ret') <=> AllReadable)]_vars

\* The second read failed after the first succeeded, and nothing was returned
C1_Witness ==
    /\ CacheFailed
    /\ cache[1].messages[1].value = Path("reviews")
    /\ readable["games"] /\ ~readable["reviews"]
    /\ lastEvent = "load"
    /\ AllAbsent(ret) /\ ~raised

\* C2: within a cache window every load_data call returns what the first call
\* returned and the body runs at most once; an entry is replaced only by a
\* click on "Refresh Now", never by a re-render, a toggle or a clock tick.
C2_CacheWindow ==
    /\ [](reads <= 1 /\ (reads > 0 => ret = firstLoad))
    /\ [][(cache # None /\ cache' # cache) => lastEvent' = "refresh"]_vars

\* A later render, after time passed and storage went away, still returns the
\* tables of the first call
C2_Witness ==
    /\ lastEvent = "toggle"
    /\ now # 0
    /\ ~AllReadable
    /\ AllPresent(ret) /\ ret = firstLoad /\ reads = 1

\* C7 as stated: a render of a failed load shows exactly one error element,
\* and that element names the three expected files.
C7_SingleErrorBanner ==
    (Rendered /\ AllAbsent(ret)) =>
        /\ Count("error") = 1
        /\ \E i \in DOMAIN display :
              display[i].kind = "error" /\ display[i].value = RequiredFiles

\* C7 amended: a render of a failed load shows two error elements, first the
\* loader's "Error loading data" with the path of the file that failed (shown
\* again on every render served from the cache), then main's "Data files not
\* found!", and closes with an info element naming the three expected files.
C7_TwoErrorsThenRequiredFiles ==
    (Rendered /\ AllAbsent(ret)) =>
        /\ Count("error") = 2
        /\ \E i, j \in DOMAIN display :
              /\ i < j
              /\ display[i].kind = "error"
              /\ display[i].label = "Error loading data"
              /\ display[i].value \in {Path(f) : f \in FileSet}
              /\ display[j].kind = "error"
              /\ display[j].label = "main"
        /\ display[Len(display)] = Elem("info", "main", RequiredFiles)
        /\ Count("info") = 1

\* The failed load is rendered again from the cache, after the file that
\* failed has come back
C7_Witness ==
    /\ CacheFailed
    /\ cache[1].messages[1].value = Path("logs")
    /\ readable["logs"]
    /\ lastEvent = "load"
    /\ Count("error") = 2

DropColumn(df, c) ==
    DataFrame(df.columns \ {c},
              [i \in 1..len(df) |-> [k \in df.columns \ {c} |-> df.rows[i][k]]])

\* C9: a render leaves the cached result as it was read: main's games and logs
\* tables are the cached ones, its reviews table is the cached one plus at most
\* the playtime_bin column, and the cached tables stay those of the first load
\* of the window through any number of renders.
C9_RenderLeavesCacheUnchanged ==
    /\ [](CacheLoaded =>
            /\ cache[1].value = firstLoad
            /\ locals[1] = cache[1].value[1]
            /\ locals[3] = cache[1].value[3]
            /\ "playtime_bin" \notin cache[1].value[2][1].columns
            /\ locals[2][1].columns \ cache[1].value[2][1].columns \subseteq {"playtime_bin"}
            /\ DropColumn(locals[2][1], "playtime_bin") = cache[1].value[2][1])
    /\ [][(cache # None /\ lastEvent' \in {"load", "toggle"}) => cache' = cache]_vars

\* A second render has added the derived column to its own copy only
C9_Witness ==
    /\ CacheLoaded
    /\ lastEvent = "toggle"
    /\ "playtime_bin" \in locals[2][1].columns
    /\ len(locals[2][1]) > 0
    /\ "playtime_bin" \notin cache[1].value[2][1].columns

\* C10: a cached failed load stays cached: while it is, the page shows the
\* error branch and offers neither the checkbox nor the "Refresh Now" button,
\* and no step leads from a cached failure to anything else, whatever becomes
\* of the files.
C10_FailedLoadSticky ==
    /\ [](CacheFailed =>
            /\ ~Offers("button", "Refresh Now")
            /\ ~Offers("checkbox", "Auto Refresh (30s)")
            /\ display[Len(display)] = Elem("info", "main", RequiredFiles)
            /\ AllAbsent(ret))
    /\ [][CacheFailed => CacheFailed']_vars

\* All files are readable again and a fresh page load still shows the failure
C10_Witness ==
    /\ CacheFailed
    /\ AllReadable
    /\ lastEvent = "load"
    /\ ~CacheLoaded

\* The bin of the right-open partition [0,10), [10,50), [50,100), [100,inf)
RightOpenBin(x) ==
    CHOOSE k \in DOMAIN BinEdges :
        /\ BinEdges[k] <= x
        /\ k < Len(BinEdges) => x < BinEdges[k + 1]

RECURSIVE SeqSum(_, _)
SeqSum(f, n) == IF n = 0 THEN 0 ELSE SeqSum(f, n - 1) + f[n]

\* C3 as stated: when the reviews table has a playtime column the chart counts
\* every row in exactly one of the four right-open bins, a value on an edge in
\* the bin that starts there, and the counts sum to the number of rows.
C3_RightOpenBins ==
    (Rendered /\ CacheLoaded /\ has_column(ret[2][1], "playtime_hours")) =>
        \E i \in DOMAIN display :
            /\ display[i].kind = "plotly_chart"
            /\ display[i].data =
                  [k \in DOMAIN BinLabels |->
                      Cardinality({r \in 1..len(ret[2][1]) :
                          RightOpenBin(ret[2][1].rows[r]["playtime_hours"]) = k})]
            /\ SeqSum(display[i].data, Len(BinLabels)) = len(ret[2][1])

RowCount(df) == IF df = None THEN 0 ELSE len(df[1])

\* C4 as stated: every render shows Total Games, Total Reviews and Log Entries,
\* each the row count of its table, 0 for an absent table.
C4_RowCountsOnEveryRender ==
    Rendered =>
        /\ Shows("metric", "Total Games", FormatThousands(RowCount(ret[1])))
        /\ Shows("metric", "Total Reviews", FormatThousands(RowCount(ret[2])))
        /\ Shows("metric", "Log Entries", FormatThousands(RowCount(ret[3])))

\* C5 as stated: with the reviews table absent a render does not raise and
\* shows the placeholder of every review-derived widget.
C5_PlaceholdersWhenReviewsAbsent ==
    (Rendered /\ ret[2] = None) =>
        /\ ~raised
        /\ Shows("metric", "Avg Playtime", "N/A")
        /\ Shows("metric", "Sentiment Score", "N/A")
        /\ Shows("info", "col1", "Playtime data not available")

\* C6 as stated: the Sentiment Score shown is the vote ratio as a percentage to
\* one decimal when both vote columns exist, "62.4%" when the reviews table is
\* present without them, and "N/A" when the reviews table is absent.
C6_SentimentThreeCases ==
    Rendered =>
        Shows("metric", "Sentiment Score",
              IF ret[2] = None THEN "N/A"
              ELSE IF has_column(ret[2][1], "helpful_votes")
                      /\ has_column(ret[2][1], "total_votes")
                   THEN FormatFixed1(100 * column_sum(ret[2][1], "helpful_votes"),
                                     column_sum(ret[2][1], "total_votes")) \o "%"
                   ELSE "62.4%")

\* C8 as stated: with the checkbox ticked, a clock tick is eventually followed
\* by a run of the script although the user does nothing; with it unticked the
\* page changes only when the user acts.
C8_AutoRefreshRerenders ==
    /\ (auto_refresh /\ lastEvent = "tick") ~> (~auto_refresh \/ lastEvent \in RunEvents)
    /\ [][(~auto_refresh /\ display' # display) => lastEvent' \in RunEvents]_vars

====
